---- MODULE Spec2Model ----
(***************************************************************************)
(* A model of the reddit-crawler pipeline: the configuration store         *)
(* (src/src/config.py), the storage layer (src/src/storage.py), the        *)
(* content client (src/src/reddit_client.py), the summarizer               *)
(* (src/src/summarizer.py) and the command front end (src/src/main.py).    *)
(*                                                                         *)
(* Python values are modelled as trees: a function from paths (sequences   *)
(* of dictionary keys) to leaves.  The root path << >> carries the kind of *)
(* the value itself: a dictionary has the leaf "dict" at its root and one  *)
(* sub-tree per key, a scalar is the one-point tree holding its leaf.      *)
(***************************************************************************)
EXTENDS Integers, Sequences, FiniteSets, TLC

VARIABLES
    mergeIn,        \* _merge_configs: the arguments (default, user)
    mergeOut,       \* _merge_configs: the returned mapping, once called
    config,         \* Config.config
    default_config, \* Config.default_config
    shared,         \* paths at which config and default_config hold the same dict object
    config_file,    \* content of config.json on disk
    cfgCall,        \* the last Config method call and its outcome
    data_dir,       \* the data directory on disk: "present" or "missing"
    files,          \* the content of each file name of the data directory
    stCall,         \* the last DataStorage method call and its outcome
    smCall,         \* the last PostSummarizer method call and its outcome
    clCall,         \* the last RedditClient method call and its outcome
    cliCall,        \* the last command run and its outcome
    clock,          \* the wall clock, in seconds
    mtime           \* for each file a command wrote, the second of its last write

mergeVars == <<mergeIn, mergeOut>>
configVars == <<config, default_config, shared, config_file, cfgCall>>
storageVars == <<data_dir, files, stCall>>
summarizerVars == <<smCall>>
clientVars == <<clCall>>
cliVars == <<cliCall, clock, mtime>>
vars == <<mergeVars, configVars, storageVars, summarizerVars, clientVars, cliVars>>

----------------------------------------------------------------------------
(* Python values *)

Leaf(tag, val) == [tag |-> tag, val |-> val]
DictLeaf == Leaf("dict", "")
Scalar(tag, val) == (<< >> :> Leaf(tag, val))
EmptyDict == (<< >> :> DictLeaf)
PyInt(s) == Scalar("int", s)
PyStr(s) == Scalar("str", s)
PyBool(s) == Scalar("bool", s)
PyFloat(s) == Scalar("float", s)
PyNone == Scalar("null", "None")

\* isinstance(v, dict)
IsDict(v) == v[<< >>].tag = "dict"

\* v.keys() of a dict v
KeysOf(v) == {p[1] : p \in {q \in DOMAIN v : Len(q) = 1}}

\* v[k] of a dict v holding k
Child(v, k) ==
    [q \in {Tail(p) : p \in {r \in DOMAIN v : Len(r) >= 1 /\ r[1] = k}}
        |-> v[<<k>> \o q]]

\* v[k] = c on a dict v
Put(v, k, c) ==
    [p \in {q \in DOMAIN v : Len(q) = 0 \/ q[1] # k} \cup {<<k>> \o q : q \in DOMAIN c}
        |-> IF Len(p) >= 1 /\ p[1] = k THEN c[Tail(p)] ELSE v[p]]

\* the dict literal {k: f[k] for k in DOMAIN f}
MkDict(f) ==
    [p \in {<< >>} \cup UNION {{<<k>> \o q : q \in DOMAIN f[k]} : k \in DOMAIN f}
        |-> IF p = << >> THEN DictLeaf ELSE f[p[1]][Tail(p)]]

\* the value found in tree t at path p (p in DOMAIN t)
SubAt(t, p) ==
    [q \in {SubSeq(r, Len(p) + 1, Len(r)) :
                r \in {s \in DOMAIN t : Len(s) >= Len(p) /\ SubSeq(s, 1, Len(p)) = p}}
        |-> t[p \o q]]

\* the keys of the dict found in tree t at path p
KeysAt(t, p) == {r[Len(p) + 1] : r \in {s \in DOMAIN t : Len(s) = Len(p) + 1 /\ SubSeq(s, 1, Len(p)) = p}}

----------------------------------------------------------------------------
(* Config._merge_configs *)

\* the buggy variant: a user value always overwrites, nested mappings are not merged
RECURSIVE MergeShallowLoop(_, _, _)
MergeShallowLoop(merged, user, todo) ==
    IF todo = {} THEN merged
    ELSE LET key == CHOOSE k \in todo : TRUE
         IN MergeShallowLoop(Put(merged, key, Child(user, key)), user, todo \ {key})

MergeShallow(default, user) == MergeShallowLoop(default, user, KeysOf(user))

RECURSIVE MergeLoop(_, _, _)
RECURSIVE MergeConfigsRec(_, _)

\* for key, value in user.items(): ... over the keys still to visit
MergeLoop(merged, user, todo) ==
    IF todo = {} THEN merged
    ELSE LET key == CHOOSE k \in todo : TRUE
             value == Child(user, key)
             next == IF key \in KeysOf(merged) /\ IsDict(Child(merged, key)) /\ IsDict(value)
                     THEN Put(merged, key, MergeConfigsRec(Child(merged, key), value))
                     ELSE Put(merged, key, value)
         IN MergeLoop(next, user, todo \ {key})

\* merged = default.copy(); the loop; return merged
MergeConfigsRec(default, user) == MergeLoop(default, user, KeysOf(user))

MergeConfigs(default, user) == MergeConfigsRec(default, user)

----------------------------------------------------------------------------
(* The inputs of the merge: mappings of two levels over a few keys *)

MergeTopKeys == 2
TopKeyNames == <<"reddit", "storage", "filters">>
TopKeys == {TopKeyNames[i] : i \in 1..MergeTopKeys}
NestedKeys == {"limit", "sort"}

\* every dict over some keys of ks with values from vs
DictsOver(ks, vs) == {MkDict(f) : f \in UNION {[s -> vs] : s \in SUBSET ks}}

MergeInputs(s) == DictsOver(TopKeys, {s} \cup DictsOver(NestedKeys, {s}))

MergeInit ==
    /\ mergeIn \in [default : MergeInputs(PyStr("d")), user : MergeInputs(PyStr("u"))]
    /\ mergeOut = [done |-> FALSE, merged |-> EmptyDict]

MergeIdle ==
    /\ mergeIn = [default |-> EmptyDict, user |-> EmptyDict]
    /\ mergeOut = [done |-> TRUE, merged |-> EmptyDict]

CallMergeConfigs ==
    /\ ~mergeOut.done
    /\ mergeOut' = [done |-> TRUE, merged |-> MergeConfigs(mergeIn.default, mergeIn.user)]
    /\ UNCHANGED <<mergeIn, configVars, storageVars, summarizerVars, clientVars, cliVars>>

----------------------------------------------------------------------------
(* json.dump / json.load *)

\* the text of a number has a fraction part (Python parses it as a float)
HasFraction(text) == text \in {"0.5", "1.5", "10.0"}

\* the JSON token json.dump writes for a Python leaf
JsonToken(leaf) ==
    CASE leaf.tag = "dict" -> Leaf("object", "")
      [] leaf.tag = "str" -> Leaf("string", leaf.val)
      [] leaf.tag = "int" -> Leaf("number", leaf.val)
      [] leaf.tag = "float" -> Leaf("number", leaf.val)
      [] leaf.tag = "bool" -> Leaf("literal", IF leaf.val = "True" THEN "true" ELSE "false")
      [] OTHER -> Leaf("literal", "null")

\* the Python leaf json.load builds from a JSON token
PyLeaf(tok) ==
    CASE tok.tag = "object" -> DictLeaf
      [] tok.tag = "string" -> Leaf("str", tok.val)
      [] tok.tag = "number" -> Leaf(IF HasFraction(tok.val) THEN "float" ELSE "int", tok.val)
      [] tok.tag = "literal" /\ tok.val = "true" -> Leaf("bool", "True")
      [] tok.tag = "literal" /\ tok.val = "false" -> Leaf("bool", "False")
      [] OTHER -> Leaf("null", "None")

JsonDump(v) == [p \in DOMAIN v |-> JsonToken(v[p])]
JsonLoad(doc) == [p \in DOMAIN doc |-> PyLeaf(doc[p])]

----------------------------------------------------------------------------
(* Config: construction *)

DefaultConfig ==
    MkDict([reddit |-> MkDict([default_limit |-> PyInt("10"),
                               default_sort |-> PyStr("hot"),
                               user_agent |-> PyStr("RedditCrawler/1.0")]),
            summarizer |-> MkDict([model |-> PyStr("gemini-2.5-pro"),
                                   include_comments |-> PyBool("False")]),
            storage |-> MkDict([data_directory |-> PyStr("data"),
                                auto_save |-> PyBool("True"),
                                filename_format |-> PyStr("reddit_posts_%Y%m%d_%H%M%S")]),
            filters |-> MkDict([min_score |-> PyInt("0"),
                                min_comments |-> PyInt("0"),
                                max_age_days |-> PyInt("30"),
                                exclude_nsfw |-> PyBool("True")])])

\* config.json: absent, not parseable, or a JSON document
NoDoc == (<< >> :> Leaf("literal", "null"))
FileAbsent == [kind |-> "absent", doc |-> NoDoc]
FileGarbage == [kind |-> "garbage", doc |-> NoDoc]
JsonFile(v) == [kind |-> "json", doc |-> JsonDump(v)]
\* the file together with whether open(config_file, 'w') succeeds
OnDisk(f, writable) == [kind |-> f.kind, doc |-> f.doc, writable |-> writable]
Content(file) == [kind |-> file.kind, doc |-> file.doc]

\* d.copy() is shallow: the dict values of the copy are the objects of d
CopyShared(d) == {<<k>> : k \in {j \in KeysOf(d) : IsDict(Child(d, j))}}

\* the paths at which the result of _merge_configs still holds an object of default
RECURSIVE MergeShared(_, _)
MergeShared(default, user) ==
    {<<k>> : k \in {j \in KeysOf(default) \ KeysOf(user) : IsDict(Child(default, j))}}
    \cup UNION {{<<k>> \o p : p \in MergeShared(Child(default, k), Child(user, k))} :
                  k \in {j \in KeysOf(default) \cap KeysOf(user) :
                            IsDict(Child(default, j)) /\ IsDict(Child(user, j))}}

\* save_config(config): what is on disk afterwards (a failed write is logged only)
SaveConfig(file, cfg) == IF file.writable THEN OnDisk(JsonFile(cfg), TRUE) ELSE file

\* load_config: the configuration, its sharing with default_config, and the file left on disk
LoadConfig(file, default) ==
    IF file.kind = "absent"
    THEN [config |-> default, shared |-> CopyShared(default),
          file |-> SaveConfig(file, default)]
    ELSE IF file.kind = "json" /\ IsDict(JsonLoad(file.doc))
    THEN [config |-> MergeConfigs(default, JsonLoad(file.doc)),
          shared |-> MergeShared(default, JsonLoad(file.doc)),
          file |-> file]
    ELSE [config |-> default, shared |-> CopyShared(default), file |-> file]

----------------------------------------------------------------------------
(* Config.get *)

\* value[key]: the exception Python raises, or the value found
IndexValue(value, key) ==
    IF ~IsDict(value) THEN [exc |-> "TypeError", value |-> value]
    ELSE IF key \notin KeysOf(value) THEN [exc |-> "KeyError", value |-> value]
    ELSE [exc |-> "none", value |-> Child(value, key)]

\* for key in keys: value = value[key]
RECURSIVE GetWalk(_, _)
GetWalk(value, keys) ==
    IF keys = << >> THEN [exc |-> "none", value |-> value]
    ELSE LET r == IndexValue(value, Head(keys))
         IN IF r.exc # "none" THEN r ELSE GetWalk(r.value, Tail(keys))

\* the buggy variant: only KeyError is caught
GetCaughtKeyErrorOnly == {"KeyError"}

\* except (KeyError, TypeError)
GetCaught == {"KeyError", "TypeError"}

\* get(key_path, default): the value returned, or the exception that escapes
ConfigGet(cfg, keys, default) ==
    LET r == GetWalk(cfg, keys)
    IN IF r.exc = "none" THEN [raised |-> FALSE, ret |-> r.value]
       ELSE IF r.exc \in GetCaught THEN [raised |-> FALSE, ret |-> default]
       ELSE [raised |-> TRUE, ret |-> default]

----------------------------------------------------------------------------
(* Config.set *)

\* the walk to the parent dictionary and the assignment of the leaf
RECURSIVE SetWalk(_, _, _)
SetWalk(container, keys, value) ==
    IF ~IsDict(container) THEN [raised |-> TRUE, value |-> container]
    ELSE IF Len(keys) = 1 THEN [raised |-> FALSE, value |-> Put(container, keys[1], value)]
    ELSE LET key == Head(keys)
             made == IF key \notin KeysOf(container)
                     THEN Put(container, key, EmptyDict) ELSE container
             r == SetWalk(Child(made, key), Tail(keys), value)
         IN IF r.raised THEN [raised |-> TRUE, value |-> container]
            ELSE [raised |-> FALSE, value |-> Put(made, key, r.value)]

IsPrefix(p, q) == Len(p) <= Len(q) /\ SubSeq(q, 1, Len(p)) = p

\* set(key_path, value) followed by save_config(): the whole new state of the store
ConfigSet(cfg, dflt, sh, file, keys, value) ==
    LET r == SetWalk(cfg, keys, value)
        onShared == \E i \in 1..(Len(keys) - 1) : SubSeq(keys, 1, i) \in sh
    IN IF r.raised
       THEN [raised |-> TRUE, saved |-> FALSE, config |-> cfg, default_config |-> dflt,
             shared |-> sh, file |-> file]
       ELSE [raised |-> FALSE, saved |-> file.writable, config |-> r.value,
             default_config |-> IF onShared THEN SetWalk(dflt, keys, value).value ELSE dflt,
             shared |-> IF onShared THEN sh ELSE {p \in sh : ~IsPrefix(keys, p)},
             file |-> SaveConfig(file, r.value)]

----------------------------------------------------------------------------
(* The configuration store as a state machine *)

MaxPathLen == 3

\* key_path.split('.') of the dotted paths tried
CandidatePaths ==
    {<<"reddit">>, <<"reddit", "default_limit">>, <<"reddit", "default_limit", "x">>,
     <<"a", "b", "c">>, <<"a", "b", "c", "d">>}
CfgPaths == {p \in CandidatePaths : Len(p) <= MaxPathLen}
CfgValues == {PyInt("5"), PyStr("x")}
GetDefaults == {PyNone, PyStr("fallback")}

\* config.json as found by the constructor
UserConfigs ==
    {MkDict([reddit |-> MkDict([default_limit |-> PyInt("25")])]),
     MkDict([reddit |-> PyStr("off"), a |-> MkDict([b |-> PyInt("1")])]),
     PyInt("7")}
FilesBefore == {FileAbsent, FileGarbage} \cup {JsonFile(u) : u \in UserConfigs}

NoCall == [op |-> "init", path |-> << >>, value |-> PyNone, ret |-> PyNone,
           raised |-> FALSE, saved |-> FALSE, env |-> {}, errors |-> {}]

\* Config(): default_config is built, then config = load_config()
ConfigInit ==
    \E f \in FilesBefore, writable \in BOOLEAN :
        LET r == LoadConfig(OnDisk(f, writable), DefaultConfig)
        IN /\ config = r.config
           /\ default_config = DefaultConfig
           /\ shared = r.shared
           /\ config_file = r.file
           /\ cfgCall = NoCall

ConfigIdle ==
    /\ config = DefaultConfig
    /\ default_config = DefaultConfig
    /\ shared = {}
    /\ config_file = OnDisk(FileAbsent, TRUE)
    /\ cfgCall = NoCall

Get ==
    \E keys \in CfgPaths, default \in GetDefaults :
        LET r == ConfigGet(config, keys, default)
        IN /\ cfgCall' = [op |-> "get", path |-> keys, value |-> default, ret |-> r.ret,
                          raised |-> r.raised, saved |-> FALSE]
           /\ UNCHANGED <<config, default_config, shared, config_file, mergeVars, storageVars, summarizerVars, clientVars, cliVars>>

Set ==
    \E keys \in CfgPaths, value \in CfgValues :
        LET r == ConfigSet(config, default_config, shared, config_file, keys, value)
        IN /\ config' = r.config
           /\ default_config' = r.default_config
           /\ shared' = r.shared
           /\ config_file' = r.file
           /\ cfgCall' = [op |-> "set", path |-> keys, value |-> value, ret |-> PyNone,
                          raised |-> r.raised, saved |-> r.saved]
           /\ UNCHANGED <<mergeVars, storageVars, summarizerVars, clientVars, cliVars>>

\* reset_to_defaults(): config = default_config.copy(), then save_config()
ResetToDefaults ==
    /\ config' = default_config
    /\ shared' = CopyShared(default_config)
    /\ config_file' = SaveConfig(config_file, default_config)
    /\ cfgCall' = [NoCall EXCEPT !.op = "reset_to_defaults", !.saved = config_file.writable]
    /\ UNCHANGED <<default_config, mergeVars, storageVars, summarizerVars, clientVars, cliVars>>

----------------------------------------------------------------------------
(* File names: strings as sequences of characters *)

\* the characters used, in the order of their code points
Alphabet ==
    <<" ", "-", ".", "0", "1", "2", "3", "4", "5", "6", "7", "8", "9", "F", "T", "_",
      "a", "b", "c", "d", "e", "f", "g", "h", "i", "j", "k", "l", "m",
      "n", "o", "p", "q", "r", "s", "t", "u", "v", "w", "x", "y", "z">>

\* the rank of ord(c) among the characters used
Ord(c) == CHOOSE i \in 1..Len(Alphabet) : Alphabet[i] = c

\* x < y for Python strings: the first differing character decides, a proper prefix is smaller
StrLess(x, y) ==
    \/ Len(x) < Len(y) /\ SubSeq(y, 1, Len(x)) = x
    \/ \E i \in 1..Len(x) :
        /\ i <= Len(y)
        /\ SubSeq(x, 1, i - 1) = SubSeq(y, 1, i - 1)
        /\ Ord(x[i]) < Ord(y[i])

\* f.endswith(suffix)
EndsWith(f, suffix) ==
    Len(f) >= Len(suffix) /\ SubSeq(f, Len(f) - Len(suffix) + 1, Len(f)) = suffix

DotJson == <<".", "j", "s", "o", "n">>
DotMd == <<".", "m", "d">>

\* the buggy variant: sorted(names) without reverse=True
RECURSIVE SortedAscending(_)
SortedAscending(names) ==
    IF names = {} THEN << >>
    ELSE LET least == CHOOSE x \in names : \A y \in names : y = x \/ StrLess(x, y)
         IN <<least>> \o SortedAscending(names \ {least})

\* sorted(names, reverse=True)
RECURSIVE SortedReverseRec(_)
SortedReverseRec(names) ==
    IF names = {} THEN << >>
    ELSE LET greatest == CHOOSE x \in names : \A y \in names : y = x \/ StrLess(y, x)
         IN <<greatest>> \o SortedReverseRec(names \ {greatest})

SortedReverse(names) == SortedReverseRec(names)

----------------------------------------------------------------------------
(* DataStorage *)

\* a digest string: its opening literal, the overall summary and the listing entries
DigestString(head, overall, listing) == [head |-> head, overall |-> overall, listing |-> listing]
NoText == DigestString("", "", << >>)
\* a file of the data directory: absent, a JSON array of objects, or plain text
NoFile == [kind |-> "absent", items |-> << >>, text |-> NoText]
ArrayFile(docs) == [kind |-> "json", items |-> docs, text |-> NoText]
TextFile(t) == [kind |-> "text", items |-> << >>, text |-> t]

\* the buggy variant: the file is opened with 'a', so a second write leaves two documents
WriteAppending(old, new) ==
    IF old.kind = "absent" THEN new
    ELSE TextFile(DigestString("two documents in one file", "", << >>))

\* open(filepath, 'w') followed by the write: the new content replaces the old
WriteFile(old, new) == new

\* os.listdir(data_dir)
ListDir(fs) == DOMAIN fs

\* the file of that name, if any
FileAt(fs, filename) == IF filename \in DOMAIN fs THEN fs[filename] ELSE NoFile

\* the directory after a write to filename
Written(fs, filename, content) ==
    [f \in DOMAIN fs \cup {filename} |->
        IF f = filename THEN WriteFile(FileAt(fs, filename), content) ELSE fs[f]]

\* os.remove(filepath)
Removed(fs, filename) == [f \in DOMAIN fs \ {filename} |-> fs[f]]

\* the empty directory
NoFiles == [f \in {} |-> NoFile]

\* save_posts(posts, filename): the file system afterwards and the path returned
\* ("" on failure, here << >>)
SavePostsTo(dir, fs, posts, filename) ==
    IF dir # "present" THEN [files |-> fs, ok |-> FALSE]
    ELSE [files |-> Written(fs, filename,
                            ArrayFile([i \in 1..Len(posts) |-> JsonDump(posts[i])])),
          ok |-> TRUE]

\* load_posts(filename): the parsed list, or [] on any failure
LoadPosts(dir, fs, filename) ==
    IF dir = "present" /\ filename \in DOMAIN fs /\ fs[filename].kind = "json"
    THEN [i \in 1..Len(fs[filename].items) |-> JsonLoad(fs[filename].items[i])]
    ELSE << >>

\* save_digest(digest, filename)
SaveDigestTo(dir, fs, digest, filename) ==
    IF dir # "present" THEN [files |-> fs, ok |-> FALSE]
    ELSE [files |-> Written(fs, filename, TextFile(digest)), ok |-> TRUE]

\* the buggy variant: the lists are sorted without reverse=True
ListSavedFilesAscending(dir, fs) ==
    IF dir # "present" THEN [json |-> << >>, md |-> << >>]
    ELSE [json |-> SortedAscending({f \in ListDir(fs) : EndsWith(f, DotJson)}),
          md |-> SortedAscending({f \in ListDir(fs) : EndsWith(f, DotMd)})]

\* list_saved_files()
ListSavedFiles(dir, fs) ==
    IF dir # "present" THEN [json |-> << >>, md |-> << >>]
    ELSE [json |-> SortedReverse({f \in ListDir(fs) : EndsWith(f, DotJson)}),
          md |-> SortedReverse({f \in ListDir(fs) : EndsWith(f, DotMd)})]

\* delete_file(filename)
DeleteFileFrom(dir, fs, filename) ==
    IF dir = "present" /\ filename \in DOMAIN fs
    THEN [files |-> Removed(fs, filename), ok |-> TRUE]
    ELSE [files |-> fs, ok |-> FALSE]

----------------------------------------------------------------------------
(* DataStorage.get_file_info *)

\* the buggy variant: the default is taken whatever the record holds
SubredditDefault(post) == PyStr("")

\* post.get('subreddit', '')
SubredditOf(post) == IF <<"subreddit">> \in DOMAIN post THEN Child(post, "subreddit") ELSE PyStr("")

NoInfo == [found |-> FALSE, has_post_count |-> FALSE, post_count |-> 0,
           has_subreddits |-> FALSE, subreddits |-> {}]

\* get_file_info(filename): None when the file does not exist or anything fails (a
\* mapping as a community cannot go into the set); the sizes and times of os.stat are
\* left out
GetFileInfo(dir, fs, filename) ==
    LET posts == LoadPosts(dir, fs, filename)
    IN IF dir # "present" \/ filename \notin DOMAIN fs THEN NoInfo
       ELSE IF ~EndsWith(filename, DotJson)
       THEN [NoInfo EXCEPT !.found = TRUE]
       ELSE IF \E i \in 1..Len(posts) : IsDict(SubredditOf(posts[i])) THEN NoInfo
       ELSE [found |-> TRUE, has_post_count |-> TRUE, post_count |-> Len(posts),
             has_subreddits |-> posts # << >>,
             subreddits |-> {SubredditOf(posts[i]) : i \in 1..Len(posts)}]

----------------------------------------------------------------------------
(* The storage as a state machine *)

MaxPosts == 2

Post(id, subreddit, title) ==
    MkDict([id |-> PyStr(id), title |-> PyStr(title), subreddit |-> PyStr(subreddit),
            score |-> PyInt("5"), upvote_ratio |-> PyFloat("0.5")])
StoredPosts == {Post("p1", "python", "caf\\u00e9"), Post("p2", "golang", "go 2")}
PostLists == UNION {[1..n -> StoredPosts] : n \in 0..MaxPosts}

AJson == <<"a", ".", "j", "s", "o", "n">>
BJson == <<"b", ".", "j", "s", "o", "n">>
AJsonMd == <<"a", ".", "j", "s", "o", "n", ".", "m", "d">>
Notes == <<"n", "o", "t", "e", "s">>
PostNames == {AJson, BJson}
DigestNames == {AJsonMd, Notes}
FileNames == PostNames \cup DigestNames
DigestTexts == {DigestString("# Reddit Posts Digest", "An overview.", << >>)}

NoStCall == [op |-> "init", name |-> << >>, posts |-> << >>, ok |-> TRUE,
             json |-> << >>, md |-> << >>, info |-> NoInfo]

\* DataStorage(): ensure_data_directory() has made the directory
StorageInit ==
    /\ data_dir = "present"
    /\ files = NoFiles
    /\ stCall = NoStCall

StorageIdle == StorageInit

EnsureDataDirectory ==
    /\ data_dir' = "present"
    /\ stCall' = [NoStCall EXCEPT !.op = "ensure_data_directory"]
    /\ UNCHANGED <<files, mergeVars, configVars, summarizerVars, clientVars, cliVars>>

\* the environment removes the data directory and all it holds
RemoveDataDirectory ==
    /\ data_dir = "present"
    /\ data_dir' = "missing"
    /\ files' = NoFiles
    /\ stCall' = [NoStCall EXCEPT !.op = "rmtree"]
    /\ UNCHANGED <<mergeVars, configVars, summarizerVars, clientVars, cliVars>>

SavePosts ==
    \E posts \in PostLists, filename \in PostNames :
        LET r == SavePostsTo(data_dir, files, posts, filename)
        IN /\ files' = r.files
           /\ stCall' = [NoStCall EXCEPT !.op = "save_posts", !.name = filename,
                                         !.posts = posts, !.ok = r.ok]
           /\ UNCHANGED <<data_dir, mergeVars, configVars, summarizerVars, clientVars, cliVars>>

SaveDigest ==
    \E digest \in DigestTexts, filename \in DigestNames :
        LET r == SaveDigestTo(data_dir, files, digest, filename)
        IN /\ files' = r.files
           /\ stCall' = [NoStCall EXCEPT !.op = "save_digest", !.name = filename, !.ok = r.ok]
           /\ UNCHANGED <<data_dir, mergeVars, configVars, summarizerVars, clientVars, cliVars>>

ListFiles ==
    LET r == ListSavedFiles(data_dir, files)
    IN /\ stCall' = [NoStCall EXCEPT !.op = "list_saved_files", !.json = r.json, !.md = r.md]
       /\ UNCHANGED <<data_dir, files, mergeVars, configVars, summarizerVars, clientVars, cliVars>>

DeleteFile ==
    \E filename \in FileNames :
        LET r == DeleteFileFrom(data_dir, files, filename)
        IN /\ files' = r.files
           /\ stCall' = [NoStCall EXCEPT !.op = "delete_file", !.name = filename, !.ok = r.ok]
           /\ UNCHANGED <<data_dir, mergeVars, configVars, summarizerVars, clientVars, cliVars>>

FileInfo ==
    \E filename \in FileNames :
        /\ stCall' = [NoStCall EXCEPT !.op = "get_file_info", !.name = filename,
                                      !.info = GetFileInfo(data_dir, files, filename)]
        /\ UNCHANGED <<data_dir, files, mergeVars, configVars, summarizerVars, clientVars, cliVars>>

StorageNext ==
    \/ EnsureDataDirectory \/ RemoveDataDirectory
    \/ SavePosts \/ SaveDigest \/ ListFiles \/ DeleteFile \/ FileInfo

----------------------------------------------------------------------------
(* PostSummarizer.summarize_post *)

ErrorSummary == "Error: Could not generate summary"
Now == "2024-01-01 00:00:00"

\* response.text.strip() of the texts the language model answers with
Strip(text) == IF text = " A summary. " THEN "A summary." ELSE text

\* post[field]: KeyError when the record lacks the field
HasField(post, field) == <<field>> \in DOMAIN post

\* bool(post['content']) for the string held
Truthy(v) == v[<< >>].val # ""

\* the text handed to generate_content: the title, the body if any, the comment bodies
NoPrompt == [sent |-> FALSE, title |-> "", content |-> "", comments |-> << >>]
PostPrompt(post, include_comments, comments) ==
    [sent |-> TRUE,
     title |-> post[<<"title">>].val,
     content |-> IF Truthy(Child(post, "content")) THEN post[<<"content">>].val ELSE "",
     comments |-> IF include_comments /\ comments # << >>
                  THEN SubSeq(comments, 1, IF Len(comments) < 5 THEN Len(comments) ELSE 5)
                  ELSE << >>]

\* the except branch: the log line reads post['id'], then the copy with the sentinel
SummarizeFailed(post) ==
    IF ~HasField(post, "id")
    THEN [raised |-> TRUE, ret |-> post]
    ELSE [raised |-> FALSE, ret |-> Put(post, "summary", PyStr(ErrorSummary))]

\* summarize_post(post, include_comments, comments); llm is the answer of the language
\* model ("" when the call fails)
SummarizePost(post, include_comments, comments, llm) ==
    IF ~HasField(post, "title") \/ ~HasField(post, "content")
    THEN [prompt |-> NoPrompt] @@ SummarizeFailed(post)
    ELSE IF llm = ""
    THEN [prompt |-> PostPrompt(post, include_comments, comments)] @@ SummarizeFailed(post)
    ELSE [prompt |-> PostPrompt(post, include_comments, comments),
          raised |-> FALSE,
          ret |-> Put(Put(post, "summary", PyStr(Strip(llm))), "summarized_at", PyStr(Now))]

----------------------------------------------------------------------------
(* PostSummarizer.summarize_multiple_posts *)

\* comments = None, or [] when include_comments (the fetch is a placeholder)
BatchComments(include_comments) == << >>

\* the loop over posts[i..]: the summaries so far, the prompts sent, and whether an
\* exception escaped (the print of post['title'] is outside any try)
RECURSIVE SummarizeLoop(_, _, _, _, _)
SummarizeLoop(posts, include_comments, llms, i, acc) ==
    IF i > Len(posts) THEN acc
    ELSE IF ~HasField(posts[i], "title") THEN [acc EXCEPT !.raised = TRUE]
    ELSE LET r == SummarizePost(posts[i], include_comments,
                                BatchComments(include_comments), llms[i])
         IN IF r.raised THEN [acc EXCEPT !.raised = TRUE, !.prompts = Append(@, r.prompt)]
            ELSE SummarizeLoop(posts, include_comments, llms, i + 1,
                               [acc EXCEPT !.ret = Append(@, r.ret),
                                           !.prompts = Append(@, r.prompt)])

SummarizeMultiplePosts(posts, include_comments, llms) ==
    SummarizeLoop(posts, include_comments, llms, 1,
                  [raised |-> FALSE, ret |-> << >>, prompts |-> << >>])

----------------------------------------------------------------------------
(* PostSummarizer.create_digest *)

DigestLimit == 10

DigestFields == {"title", "subreddit", "score", "num_comments", "permalink"}

\* the buggy variant: the whole input is listed
AllPosts(posts) == posts

\* posts[:10]
TopPosts(posts) == SubSeq(posts, 1, IF Len(posts) < DigestLimit THEN Len(posts) ELSE DigestLimit)

\* one entry of the listing
DigestEntry(i, post) ==
    [n |-> i, title |-> post[<<"title">>].val, subreddit |-> post[<<"subreddit">>].val,
     summary |-> IF HasField(post, "summary") THEN post[<<"summary">>].val ELSE "",
     permalink |-> post[<<"permalink">>].val]

\* create_digest(posts): the string returned, whether the language model was called,
\* and whether an exception escaped; llm is the model's answer ("" when the call fails)
CreateDigest(posts, llm) ==
    LET top == TopPosts(posts)
        listing == [i \in 1..Len(top) |-> DigestEntry(i, top[i])]
    IN IF posts = << >>
       THEN [raised |-> FALSE, sent |-> FALSE,
             digest |-> DigestString("No posts to summarize.", "", << >>)]
       ELSE IF \E i \in 1..Len(top) : \E f \in DigestFields : ~HasField(top[i], f)
       THEN [raised |-> FALSE, sent |-> FALSE,
             digest |-> DigestString("Error creating digest: ", "", << >>)]
       ELSE IF llm = ""
       THEN [raised |-> FALSE, sent |-> TRUE,
             digest |-> DigestString("Error creating digest: ", "", << >>)]
       ELSE [raised |-> FALSE, sent |-> TRUE,
             digest |-> DigestString("# Reddit Posts Digest", Strip(llm), listing)]

----------------------------------------------------------------------------
(* The summarizer as a state machine *)

MaxBatch == 2
MaxDigestPosts == 11

\* del post[field]
Without(post, field) == [p \in {q \in DOMAIN post : Len(q) = 0 \/ q[1] # field} |-> post[p]]

\* a post record as the content client builds it
FullPost(id, title, content, subreddit) ==
    MkDict([id |-> PyStr(id), title |-> PyStr(title), content |-> PyStr(content),
            url |-> PyStr("https://example.com/" \o id), score |-> PyInt("5"),
            upvote_ratio |-> PyFloat("0.5"), num_comments |-> PyInt("1"),
            created_utc |-> PyFloat("1.5"), author |-> PyStr("alice"),
            permalink |-> PyStr("https://reddit.com/r/" \o id), subreddit |-> PyStr(subreddit)])

\* the records handed to the summarizer: complete, with an empty body, and lacking a field
SummaryPosts ==
    {FullPost("p1", "first", "body", "python"),
     FullPost("p2", "second", "", "golang"),
     Without(FullPost("p3", "third", "body", "python"), "title"),
     Without(FullPost("p4", "fourth", "body", "python"), "id")}
LlmAnswers == {"", " A summary. "}
CommentLists == {<< >>, <<"a comment">>}

\* the i-th record handed to create_digest: complete with a summary, or lacking its title
DigestTitles == <<"t1", "t2", "t3", "t4", "t5", "t6", "t7", "t8", "t9", "t10", "t11", "t12", "t13">>
DigestPost(i, complete) ==
    LET post == Put(FullPost("p", DigestTitles[i], "body", "python"), "summary", PyStr("A summary."))
    IN IF complete THEN post ELSE Without(post, "title")
DigestInputs ==
    {[i \in DOMAIN shape |-> DigestPost(i, shape[i])] :
        shape \in UNION {[1..n -> BOOLEAN] : n \in 0..MaxDigestPosts}}

NoSmCall == [op |-> "init", posts |-> << >>, include_comments |-> FALSE, comments |-> << >>,
             llms |-> << >>, raised |-> FALSE, ret |-> << >>, prompts |-> << >>,
             sent |-> FALSE, digest |-> NoText]

SummarizerInit == smCall = NoSmCall
SummarizerIdle == smCall = NoSmCall

SummarizeOne ==
    /\ smCall.op = "init"
    /\ \E post \in SummaryPosts, include_comments \in BOOLEAN, comments \in CommentLists,
       llm \in LlmAnswers :
        LET r == SummarizePost(post, include_comments, comments, llm)
        IN /\ smCall' = [NoSmCall EXCEPT !.op = "summarize_post", !.posts = <<post>>,
                                         !.include_comments = include_comments,
                                         !.comments = comments, !.llms = <<llm>>,
                                         !.raised = r.raised, !.ret = <<r.ret>>,
                                         !.prompts = <<r.prompt>>, !.sent = r.prompt.sent]
           /\ UNCHANGED <<mergeVars, configVars, storageVars, clientVars, cliVars>>

SummarizeMany ==
    /\ smCall.op = "init"
    /\ \E n \in 0..MaxBatch, include_comments \in BOOLEAN :
        \E posts \in [1..n -> SummaryPosts], llms \in [1..n -> LlmAnswers] :
            LET r == SummarizeMultiplePosts(posts, include_comments, llms)
            IN /\ smCall' = [NoSmCall EXCEPT !.op = "summarize_multiple_posts",
                                             !.posts = posts,
                                             !.include_comments = include_comments,
                                             !.llms = llms, !.raised = r.raised,
                                             !.ret = r.ret, !.prompts = r.prompts]
               /\ UNCHANGED <<mergeVars, configVars, storageVars, clientVars, cliVars>>

Digest ==
    /\ smCall.op = "init"
    /\ \E posts \in DigestInputs, llm \in LlmAnswers :
        LET r == CreateDigest(posts, llm)
        IN /\ smCall' = [NoSmCall EXCEPT !.op = "create_digest", !.posts = posts,
                                         !.llms = <<llm>>, !.raised = r.raised,
                                         !.sent = r.sent, !.digest = r.digest]
           /\ UNCHANGED <<mergeVars, configVars, storageVars, clientVars, cliVars>>

SummarizerNext == SummarizeOne \/ SummarizeMany \/ Digest

----------------------------------------------------------------------------
(* RedditClient *)

\* a submission as the API client delivers it; author "" stands for None
Submission(id, author, subreddit) ==
    [id |-> id, title |-> "title of " \o id, selftext |-> "body of " \o id,
     author |-> author, permalink |-> "/r/" \o subreddit \o "/" \o id,
     subreddit |-> subreddit]

\* post_data: the record built from one submission
PostData(post, subreddit_name) ==
    MkDict([id |-> PyStr(post.id), title |-> PyStr(post.title),
            content |-> PyStr(post.selftext),
            url |-> PyStr("https://example.com/" \o post.id), score |-> PyInt("5"),
            upvote_ratio |-> PyFloat("0.5"), num_comments |-> PyInt("1"),
            created_utc |-> PyFloat("1.5"),
            author |-> PyStr(IF post.author # "" THEN post.author ELSE "[deleted]"),
            permalink |-> PyStr("https://reddit.com" \o post.permalink),
            subreddit |-> PyStr(subreddit_name)])

\* the listing asked of the API: an unknown sort falls back to hot
Listing(sort_by) == IF sort_by \in {"hot", "new", "top", "rising"} THEN sort_by ELSE "hot"

\* for post in posts: post_list.append(post_data); the client fails once failAfter
\* submissions have been delivered (never, when failAfter is -1)
RECURSIVE FetchLoop(_, _, _, _)
FetchLoop(feed, failAfter, names, post_list) ==
    IF failAfter = Len(post_list) THEN [failed |-> TRUE, post_list |-> post_list]
    ELSE IF Len(post_list) = Len(feed) THEN [failed |-> FALSE, post_list |-> post_list]
    ELSE FetchLoop(feed, failAfter, names,
                   Append(post_list, PostData(feed[Len(post_list) + 1],
                                              names[Len(post_list) + 1])))

\* the buggy variant: the posts built before the failure are returned
OnClientErrorPartial(post_list) == post_list

\* except Exception: return []
OnClientError(post_list) == << >>

\* get_posts_from_subreddit(subreddit_name, limit, sort_by) against a client that
\* delivers feed and fails after failAfter submissions
GetPostsFromSubreddit(subreddit_name, feed, failAfter) ==
    LET r == FetchLoop(feed, failAfter, [i \in 1..Len(feed) |-> subreddit_name], << >>)
    IN IF r.failed THEN OnClientError(r.post_list) ELSE r.post_list

\* search_posts(query, subreddit_name, limit): the community is the submission's own
SearchPosts(feed, failAfter) ==
    LET r == FetchLoop(feed, failAfter, [i \in 1..Len(feed) |-> feed[i].subreddit], << >>)
    IN IF r.failed THEN OnClientError(r.post_list) ELSE r.post_list

----------------------------------------------------------------------------
(* The content client as a state machine *)

MaxLimit == 2

Submissions == {Submission("s1", "alice", "python"), Submission("s2", "", "golang")}
\* what the API client can deliver for a request of at most limit submissions
Feeds(limit) == UNION {[1..n -> Submissions] : n \in 0..limit}
SortArguments == {"hot", "new", "top", "rising", "best"}

NoClCall == [op |-> "init", subreddit |-> "", listing |-> "", limit |-> 0, feed |-> << >>,
             failAfter |-> -1, raised |-> FALSE, ret |-> << >>]

ClientInit == clCall = NoClCall
ClientIdle == clCall = NoClCall

FetchPosts ==
    /\ clCall.op = "init"
    /\ \E limit \in 1..MaxLimit, sort_by \in SortArguments :
        \E feed \in Feeds(limit) :
            \E failAfter \in -1..Len(feed) :
                /\ clCall' = [op |-> "get_posts_from_subreddit", subreddit |-> "python",
                              listing |-> Listing(sort_by), limit |-> limit, feed |-> feed,
                              failAfter |-> failAfter, raised |-> FALSE,
                              ret |-> GetPostsFromSubreddit("python", feed, failAfter)]
                /\ UNCHANGED <<mergeVars, configVars, storageVars, summarizerVars, cliVars>>

Search ==
    /\ clCall.op = "init"
    /\ \E limit \in 1..MaxLimit, subreddit_name \in {"", "python"} :
        \E feed \in Feeds(limit) :
            \E failAfter \in -1..Len(feed) :
                /\ clCall' = [op |-> "search_posts",
                              subreddit |-> IF subreddit_name # "" THEN subreddit_name ELSE "all",
                              listing |-> "search", limit |-> limit, feed |-> feed,
                              failAfter |-> failAfter, raised |-> FALSE,
                              ret |-> SearchPosts(feed, failAfter)]
                /\ UNCHANGED <<mergeVars, configVars, storageVars, summarizerVars, cliVars>>

ClientNext == FetchPosts \/ Search

----------------------------------------------------------------------------
(* Config.validate_config *)

Secrets == {"REDDIT_CLIENT_ID", "REDDIT_CLIENT_SECRET", "GEMINI_API_KEY"}

\* isinstance(value, int): bool is a subclass of int
IsInstanceInt(value) == value[<< >>].tag \in {"int", "bool"}

\* value <= 0 for an int or a bool
NotPositive(value) ==
    IF value[<< >>].tag = "bool" THEN value[<< >>].val = "False"
    ELSE value[<< >>].val \in {"0", "-1"}

\* validate_config(): the keys of the errors found; env is the set of secrets present
ValidateConfig(cfg, env) ==
    LET limit == ConfigGet(cfg, <<"reddit", "default_limit">>, PyNone).ret
    IN (IF "REDDIT_CLIENT_ID" \notin env THEN {"reddit_client_id"} ELSE {})
       \cup (IF "REDDIT_CLIENT_SECRET" \notin env THEN {"reddit_client_secret"} ELSE {})
       \cup (IF "GEMINI_API_KEY" \notin env THEN {"gemini_api_key"} ELSE {})
       \cup (IF ~IsInstanceInt(limit) \/ NotPositive(limit) THEN {"reddit_limit"} ELSE {})

----------------------------------------------------------------------------
(* validate_config as a state machine *)

\* what config.json holds under reddit.default_limit
LimitValues ==
    {PyInt("1"), PyInt("10"), PyInt("25"), PyInt("0"), PyInt("-1"), PyBool("True"),
     PyBool("False"), PyStr("10"), PyStr(""), PyFloat("1.5"), PyFloat("10.0"), PyNone}

\* Config() over a file that sets reddit.default_limit
ValidateInit ==
    \E limit \in LimitValues :
        LET r == LoadConfig(OnDisk(JsonFile(MkDict([reddit |-> MkDict([default_limit |-> limit])])),
                                   TRUE),
                            DefaultConfig)
        IN /\ config = r.config
           /\ default_config = DefaultConfig
           /\ shared = r.shared
           /\ config_file = r.file
           /\ cfgCall = NoCall

\* validate_config() in an environment holding the secrets env
Validate ==
    /\ cfgCall.op = "init"
    /\ \E env \in SUBSET Secrets :
        /\ cfgCall' = [NoCall EXCEPT !.op = "validate_config", !.env = env,
                                     !.errors = ValidateConfig(config, env)]
        /\ UNCHANGED <<config, default_config, shared, config_file, mergeVars, storageVars, summarizerVars, clientVars, cliVars>>

----------------------------------------------------------------------------
(* main.py: strings of the command line *)

\* "".join(chars)
RECURSIVE Join(_)
Join(chars) == IF chars = << >> THEN "" ELSE chars[1] \o Join(Tail(chars))

Digits == {"0", "1", "2", "3", "4", "5", "6", "7", "8", "9"}

\* c.isalnum()
IsAlnum(c) == c \notin {" ", "-", ".", "_"}

\* s.isdigit()
IsDigit(s) == s # << >> /\ \A i \in 1..Len(s) : s[i] \in Digits

\* s.lower()
Lower(s) == [i \in 1..Len(s) |-> IF s[i] = "T" THEN "t" ELSE IF s[i] = "F" THEN "f" ELSE s[i]]

\* s.replace('.', '')
WithoutDots(s) == SelectSeq(s, LAMBDA c : c # ".")

\* s.rstrip()
RECURSIVE RStrip(_)
RStrip(s) ==
    IF s # << >> /\ s[Len(s)] = " " THEN RStrip(SubSeq(s, 1, Len(s) - 1)) ELSE s

\* s.replace(old, new): every occurrence, from the left
RECURSIVE Replace(_, _, _)
Replace(s, old, new) ==
    IF Len(s) < Len(old) THEN s
    ELSE IF SubSeq(s, 1, Len(old)) = old
    THEN new \o Replace(SubSeq(s, Len(old) + 1, Len(s)), old, new)
    ELSE <<Head(s)>> \o Replace(Tail(s), old, new)

\* s.split('.')
RECURSIVE Split(_, _)
Split(s, word) ==
    IF s = << >> THEN <<Join(word)>>
    ELSE IF Head(s) = "." THEN <<Join(word)>> \o Split(Tail(s), << >>)
    ELSE Split(Tail(s), Append(word, Head(s)))

\* the digits of str(int(s))
RECURSIVE IntDigits(_)
IntDigits(s) == IF Len(s) > 1 /\ Head(s) = "0" THEN IntDigits(Tail(s)) ELSE s

\* the fraction digits of repr(float(s)) for a short decimal
RECURSIVE FractionDigits(_)
FractionDigits(s) ==
    IF s = << >> THEN <<"0">>
    ELSE IF s[Len(s)] = "0" THEN FractionDigits(SubSeq(s, 1, Len(s) - 1))
    ELSE s

\* float(s) of digits and dots: ValueError unless there is exactly one dot
ParseFloat(s) ==
    LET dot == CHOOSE i \in 1..Len(s) : s[i] = "."
        whole == SubSeq(s, 1, dot - 1)
        fraction == SubSeq(s, dot + 1, Len(s))
    IN IF Len(s) - Len(WithoutDots(s)) # 1 THEN [raised |-> TRUE, value |-> PyNone]
       ELSE [raised |-> FALSE,
             value |-> PyFloat(Join(IF whole = << >> THEN <<"0">> ELSE IntDigits(whole))
                               \o "." \o Join(FractionDigits(fraction)))]

\* the conversion of --value in set_config
CoerceValue(value) ==
    IF Lower(value) \in {<<"t", "r", "u", "e">>, <<"f", "a", "l", "s", "e">>}
    THEN [raised |-> FALSE,
          value |-> PyBool(IF Lower(value) = <<"t", "r", "u", "e">> THEN "True" ELSE "False")]
    ELSE IF IsDigit(value) THEN [raised |-> FALSE, value |-> PyInt(Join(IntDigits(value)))]
    ELSE IF IsDigit(WithoutDots(value)) THEN ParseFloat(value)
    ELSE [raised |-> FALSE, value |-> PyStr(Join(value))]

\* datetime.now().strftime('%Y%m%d_%H%M%S') at second t of the first of January 2024
Strftime(t) ==
    <<"2", "0", "2", "4", "0", "1", "0", "1", "_", "0", "0", "0", "0", "0">>
    \o <<CHOOSE d \in Digits : Ord(d) = Ord("0") + t>>

DigestSuffix == <<"_", "d", "i", "g", "e", "s", "t", ".", "m", "d">>

\* f"{subreddit}_{sort}_{now}.json"
FetchFilename(subreddit, sort, t) ==
    subreddit \o <<"_">> \o sort \o <<"_">> \o Strftime(t) \o DotJson

\* f"search_{safe_query}_{now}.json"
SearchFilename(query, t) ==
    <<"s", "e", "a", "r", "c", "h", "_">>
    \o RStrip(SelectSeq(query, LAMBDA c : IsAlnum(c) \/ c \in {" ", "-", "_"}))
    \o <<"_">> \o Strftime(t) \o DotJson

\* the display loop reads post[field] for each of the fields
DisplayRaises(posts, fields) ==
    \E i \in 1..Len(posts) : \E f \in fields : ~HasField(posts[i], f)

----------------------------------------------------------------------------
(* main.py: the commands, each one run of the process *)

MaxRuns == 3

Hot == <<"h", "o", "t">>
Py == <<"p", "y">>
Missing == <<"n", "o", "n", "e">>
CliFeeds == {<<Submission("s1", "alice", "python")>>}
CliQueries == {<<"g", ".", "o", " ">>}
CliKeys ==
    {<< >>,
     <<"r", "e", "d", "d", "i", "t", ".", "d", "e", "f", "a", "u", "l", "t", "_",
       "l", "i", "m", "i", "t">>,
     <<"r", "e", "d", "d", "i", "t", ".", "d", "e", "f", "a", "u", "l", "t", "_",
       "l", "i", "m", "i", "t", ".", "x">>,
     <<"s", "t", "o", "r", "a", "g", "e", ".", "d", "a", "t", "a", "_",
       "d", "i", "r", "e", "c", "t", "o", "r", "y">>}
CliValues ==
    {<<"0", "5">>, <<"T", "r", "u", "e">>, <<"1", ".", "5", "0">>,
     <<"1", ".", "2", ".", "3">>, <<"x">>}

\* DataStorage(): the data_dir parameter is left at its default
StorageDir == "data"

NoCliCall == [cmd |-> "none", arg |-> << >>, value |-> << >>, raised |-> FALSE,
              out |-> << >>, json |-> << >>, md |-> << >>, errors |-> {}, dir |-> ""]

\* a post file saved earlier under a name of the caller's choice: save_posts(posts, 'posts')
Posts == <<"p", "o", "s", "t", "s">>
SavedBefore ==
    SavePostsTo("present", NoFiles,
                <<PostData(Submission("s1", "alice", "python"), "python")>>, Posts).files

\* before the first run: no config.json; no data directory yet, or one that holds a
\* post file saved earlier
CliInit ==
    /\ config = DefaultConfig
    /\ default_config = DefaultConfig
    /\ shared = {}
    /\ config_file = OnDisk(FileAbsent, TRUE)
    /\ cfgCall = NoCall
    /\ \/ data_dir = "missing" /\ files = NoFiles
       \/ data_dir = "present" /\ files = SavedBefore
    /\ stCall = NoStCall
    /\ cliCall = NoCliCall
    /\ clock = 0
    /\ mtime = [f \in {} |-> 0]

CliIdle ==
    /\ cliCall = NoCliCall
    /\ clock = 0
    /\ mtime = [f \in {} |-> 0]

\* cli(): Config() loads config.json; DataStorage() makes the data directory
Booted ==
    LET r == LoadConfig(config_file, DefaultConfig)
    IN [config |-> r.config, default_config |-> DefaultConfig, shared |-> r.shared,
        file |-> r.file]

\* one run of the process: what it leaves in memory and on disk, and what it reports
Process(call, store, fs, wrote) ==
    /\ clock' = clock + 1
    /\ mtime' = [f \in DOMAIN mtime \cup wrote |-> IF f \in wrote THEN clock ELSE mtime[f]]
    /\ config' = store.config
    /\ default_config' = store.default_config
    /\ shared' = store.shared
    /\ config_file' = store.file
    /\ data_dir' = "present"
    /\ files' = fs
    /\ cliCall' = call
    /\ UNCHANGED <<mergeVars, cfgCall, stCall, summarizerVars, clientVars>>

Call(cmd, arg, raised, out) ==
    [NoCliCall EXCEPT !.cmd = cmd, !.arg = arg, !.raised = raised, !.out = out,
                      !.dir = StorageDir]

\* fetch SUBREDDIT --limit --sort --summarize --save --comments
CmdFetch ==
    /\ clock < MaxRuns
    /\ \E boot \in {Booted} :
       \E subreddit \in {Py}, sort \in {Hot}, feed \in CliFeeds, failAfter \in {-1, 0},
       summarize \in BOOLEAN, save \in BOOLEAN, comments \in BOOLEAN :
        \E llms \in [1..Len(feed) -> LlmAnswers] :
            LET found == GetPostsFromSubreddit(Join(subreddit), feed, failAfter)
                sm == IF summarize THEN SummarizeMultiplePosts(found, comments, llms)
                      ELSE [raised |-> FALSE, ret |-> found, prompts |-> << >>]
                posts == sm.ret
                filename == FetchFilename(subreddit, sort, clock)
                fs == IF save /\ ~sm.raised
                      THEN SavePostsTo("present", files, posts, filename).files
                      ELSE files
                shown == DisplayRaises(posts, {"title", "score", "num_comments", "permalink"})
            IN IF found = << >>
               THEN Process(Call("fetch", subreddit, FALSE, <<"No posts found.">>),
                            boot, files, {})
               ELSE Process(Call("fetch", IF save THEN filename ELSE subreddit,
                                 sm.raised \/ shown, <<"Found posts.">>),
                            boot, fs, IF save /\ ~sm.raised THEN {filename} ELSE {})

\* search QUERY --subreddit --limit --summarize --save
CmdSearch ==
    /\ clock < MaxRuns
    /\ \E boot \in {Booted} :
       \E query \in CliQueries, subreddit \in {"", "python"}, feed \in CliFeeds,
       failAfter \in {-1, 0}, summarize \in BOOLEAN, save \in BOOLEAN :
        \E llms \in [1..Len(feed) -> LlmAnswers] :
            LET found == SearchPosts(feed, failAfter)
                sm == IF summarize THEN SummarizeMultiplePosts(found, FALSE, llms)
                      ELSE [raised |-> FALSE, ret |-> found, prompts |-> << >>]
                posts == sm.ret
                filename == SearchFilename(query, clock)
                fs == IF save /\ ~sm.raised
                      THEN SavePostsTo("present", files, posts, filename).files
                      ELSE files
                shown == DisplayRaises(posts, {"title", "subreddit", "score",
                                               "num_comments", "permalink"})
            IN IF found = << >>
               THEN Process(Call("search", query, FALSE, <<"No posts found.">>),
                            boot, files, {})
               ELSE Process(Call("search", IF save THEN filename ELSE query,
                                 sm.raised \/ shown, <<"Found posts.">>),
                            boot, fs, IF save /\ ~sm.raised THEN {filename} ELSE {})

\* digest FILENAME --create-digest
CmdDigest ==
    /\ clock < MaxRuns
    /\ \E boot \in {Booted} :
       \E filename \in DOMAIN files \cup {Missing}, create_digest \in BOOLEAN, llm \in LlmAnswers :
        LET posts == LoadPosts("present", files, filename)
            d == CreateDigest(posts, llm)
            digest_filename == Replace(filename, DotJson, DigestSuffix)
        IN IF posts = << >>
           THEN Process(Call("digest", filename, FALSE, <<"No posts found in file.">>),
                        boot, files, {})
           ELSE IF ~create_digest
           THEN Process(Call("digest", filename, FALSE, << >>), boot, files, {})
           ELSE Process([Call("digest", filename, d.raised, <<"Digest created: ">>)
                            EXCEPT !.value = digest_filename],
                        boot,
                        IF d.raised THEN files
                        ELSE SaveDigestTo("present", files, d.digest, digest_filename).files,
                        IF d.raised THEN {} ELSE {digest_filename})

\* list-files
CmdListFiles ==
    /\ clock < MaxRuns
    /\ \E boot \in {Booted} :
       LET listed == ListSavedFiles("present", files)
           info(f) == GetFileInfo("present", files, f)
       IN Process([Call("list-files", << >>,
                     \E i \in 1..Len(listed.json) :
                        info(listed.json[i]).found /\ ~info(listed.json[i]).has_post_count,
                     IF listed.json = << >> /\ listed.md = << >>
                     THEN <<"No saved files found.">> ELSE <<"Saved files:">>)
                  EXCEPT !.json = listed.json, !.md = listed.md],
               boot, files, {})

\* file-info FILENAME
CmdFileInfo ==
    /\ clock < MaxRuns
    /\ \E boot \in {Booted} :
       \E filename \in DOMAIN files \cup {Missing} :
        LET info == GetFileInfo("present", files, filename)
        IN Process(Call("file-info", filename,
                        info.has_subreddits
                            /\ \E c \in info.subreddits : c[<< >>].tag # "str",
                        IF info.found THEN <<"File: ">> ELSE <<"File not found.">>),
                   boot, files, {})

\* config
CmdConfig ==
    /\ clock < MaxRuns
    /\ \E boot \in {Booted} :
       \E env \in {{}, Secrets} :
        LET errors == ValidateConfig(boot.config, env)
        IN Process([Call("config", << >>, FALSE,
                         IF errors # {} THEN <<"Configuration Issues:">> ELSE << >>)
                      EXCEPT !.errors = errors],
                   boot, files, {})

\* set-config --key --value
CmdSetConfig ==
    /\ clock < MaxRuns
    /\ \E boot \in {Booted} :
       \E key \in CliKeys, value \in CliValues :
        LET c == CoerceValue(value)
            r == ConfigSet(boot.config, boot.default_config, boot.shared,
                           boot.file, Split(key, << >>), c.value)
            call == [Call("set-config", key, c.raised \/ r.raised, <<"Set ">>)
                        EXCEPT !.value = value]
        IN IF key = << >> \/ value = << >>
           THEN Process([Call("set-config", key, FALSE,
                              <<"Both --key and --value are required">>)
                            EXCEPT !.value = value],
                        boot, files, {})
           ELSE IF c.raised THEN Process([call EXCEPT !.out = << >>], boot, files, {})
           ELSE IF r.raised THEN Process([call EXCEPT !.out = << >>], boot, files, {})
           ELSE Process(call,
                        [config |-> r.config, default_config |-> r.default_config,
                         shared |-> r.shared, file |-> r.file],
                        files, {})

CliNext ==
    CmdFetch \/ CmdSearch \/ CmdDigest \/ CmdListFiles \/ CmdFileInfo \/ CmdConfig
    \/ CmdSetConfig

----------------------------------------------------------------------------
(* Specifications *)

ConfigNext == Get \/ Set \/ ResetToDefaults

InitMerge == MergeInit /\ ConfigIdle /\ StorageIdle /\ SummarizerIdle /\ ClientIdle /\ CliIdle
InitConfig == ConfigInit /\ MergeIdle /\ StorageIdle /\ SummarizerIdle /\ ClientIdle /\ CliIdle
InitStorage == StorageInit /\ MergeIdle /\ ConfigIdle /\ SummarizerIdle /\ ClientIdle /\ CliIdle
InitSummarizer == SummarizerInit /\ MergeIdle /\ ConfigIdle /\ StorageIdle /\ ClientIdle /\ CliIdle
InitClient == ClientInit /\ MergeIdle /\ ConfigIdle /\ StorageIdle /\ SummarizerIdle /\ CliIdle

InitValidate == ValidateInit /\ MergeIdle /\ StorageIdle /\ SummarizerIdle /\ ClientIdle /\ CliIdle
InitCli == CliInit /\ MergeIdle /\ SummarizerIdle /\ ClientIdle

SpecMerge == InitMerge /\ [][CallMergeConfigs]_vars
SpecConfig == InitConfig /\ [][ConfigNext]_vars
SpecStorage == InitStorage /\ [][StorageNext]_vars
SpecSummarizer == InitSummarizer /\ [][SummarizerNext]_vars
SpecClient == InitClient /\ [][ClientNext]_vars
SpecCli == InitCli /\ [][CliNext]_vars
\* the commands that write post files, and the listing
ListingNext == CmdFetch \/ CmdSearch \/ CmdListFiles
SpecListing == InitCli /\ [][ListingNext]_vars
SpecValidate == InitValidate /\ [][Validate]_vars

----------------------------------------------------------------------------
(* C1 *)

\* C1: no run of a command ends with an uncaught exception, whatever its arguments, the
\* answers of the content and language-model APIs, and the files on disk.
NoCommandAborts == ~cliCall.raised

----------------------------------------------------------------------------
(* C12 *)

\* the commands that read or write post and digest files
FileCommands == {"fetch", "search", "digest", "list-files", "file-info"}

\* C12: every fetch, search, digest, list-files and file-info command works in the
\* directory that the configuration it loaded names under storage.data_directory.
CommandsUseConfiguredDirectory ==
    cliCall.cmd \in FileCommands =>
        PyStr(cliCall.dir) = ConfigGet(config, <<"storage", "data_directory">>, PyNone).ret

----------------------------------------------------------------------------
(* C13 *)

\* what the claim says is stored for each of the --value strings tried
StoredFor(value) ==
    CASE value = <<"0", "5">> -> PyInt("5")
      [] value = <<"T", "r", "u", "e">> -> PyBool("True")
      [] value = <<"1", ".", "5", "0">> -> PyFloat("1.5")
      [] value = <<"1", ".", "2", ".", "3">> -> PyStr("1.2.3")
      [] OTHER -> PyStr(Join(value))

\* C13: set-config with a key that names no scalar on its way stores, in memory and in
\* the file, the boolean, integer or float the --value string spells, and the string
\* itself when it spells none of them, such as digits with more than one dot.
SetConfigCoercesValue ==
    (/\ cliCall.cmd = "set-config"
     /\ cliCall.value # << >>
     /\ cliCall.arg # << >>
     /\ Split(cliCall.arg, << >>) \in {<<"reddit", "default_limit">>,
                                       <<"storage", "data_directory">>}) =>
        /\ ~cliCall.raised
        /\ ConfigGet(config, Split(cliCall.arg, << >>), PyNone).ret = StoredFor(cliCall.value)
        /\ ConfigGet(LoadConfig(config_file, DefaultConfig).config,
                     Split(cliCall.arg, << >>), PyNone).ret = StoredFor(cliCall.value)

----------------------------------------------------------------------------
(* C14 *)

\* the configured limit is a positive integer: an int, not a boolean, above zero
PositiveInteger(value) == value[<< >>].tag = "int" /\ value[<< >>].val \in {"1", "10", "25"}

\* C14: validate_config reports reddit_client_id, reddit_client_secret and
\* gemini_api_key exactly for the secrets missing from the environment, and
\* reddit_limit exactly when reddit.default_limit is not a positive integer (a boolean,
\* a string, a float, zero and a negative number all count as not one); nothing else.
ValidateReportsEachViolation ==
    cfgCall.op = "validate_config" =>
        cfgCall.errors =
            (IF "REDDIT_CLIENT_ID" \in cfgCall.env THEN {} ELSE {"reddit_client_id"})
            \cup (IF "REDDIT_CLIENT_SECRET" \in cfgCall.env THEN {} ELSE {"reddit_client_secret"})
            \cup (IF "GEMINI_API_KEY" \in cfgCall.env THEN {} ELSE {"gemini_api_key"})
            \cup (IF PositiveInteger(Child(Child(config, "reddit"), "default_limit"))
                  THEN {} ELSE {"reddit_limit"})

----------------------------------------------------------------------------
(* C15 *)

\* a post file name without its timestamp and extension
Stem(f) == SubSeq(f, 1, Len(f) - Len(Strftime(0)) - Len(DotJson))

\* f is listed before g
ListedBefore(listing, f, g) ==
    \E i, j \in 1..Len(listing) : i < j /\ listing[i] = f /\ listing[j] = g

----------------------------------------------------------------------------
(* C16 *)

\* C16: whatever was loaded and set, default_config holds the built-in defaults, and
\* after reset_to_defaults the configuration in memory and, when the file could be
\* written, the file hold them too.
DefaultsNeverChange ==
    /\ default_config = DefaultConfig
    /\ cfgCall.op = "reset_to_defaults" =>
        /\ config = DefaultConfig
        /\ cfgCall.saved => Content(config_file) = JsonFile(DefaultConfig)

----------------------------------------------------------------------------
(* C17 *)

\* C17: a digest command whose argument names a post file that loads as a non-empty
\* sequence leaves that file as it was.
DigestLeavesPostFile ==
    [][(cliCall'.cmd = "digest" /\ LoadPosts("present", files, cliCall'.arg) # << >>) =>
            /\ cliCall'.arg \in DOMAIN files'
            /\ files'[cliCall'.arg] = files[cliCall'.arg]
            /\ LoadPosts("present", files', cliCall'.arg)
                    = LoadPosts("present", files, cliCall'.arg)]_vars

----------------------------------------------------------------------------
(* C3 *)

\* the paths at which default and user both hold a mapping, all the way down from the root
BothMappings(d, u) ==
    {q \in DOMAIN d \cap DOMAIN u :
        \A i \in 0..Len(q) : d[SubSeq(q, 1, i)].tag = "dict" /\ u[SubSeq(q, 1, i)].tag = "dict"}

\* C3: at every nesting level the merged mapping has the keys of both sides and no
\* others; a key of the defaults the user lacks keeps the defaults' value; a key both
\* hold as mappings holds their merge; any other key of the user holds the user's value.
MergeKeepsDefaultsAndPrefersUser ==
    mergeOut.done =>
        LET d == mergeIn.default
            u == mergeIn.user
            m == mergeOut.merged
        IN \A q \in BothMappings(d, u) :
            /\ q \in DOMAIN m
            /\ m[q].tag = "dict"
            /\ KeysAt(m, q) = KeysAt(d, q) \cup KeysAt(u, q)
            /\ \A k \in KeysAt(m, q) :
                LET p == q \o <<k>>
                IN IF k \notin KeysAt(u, q) THEN SubAt(m, p) = SubAt(d, p)
                   ELSE IF p \in BothMappings(d, u) THEN m[p].tag = "dict"
                   ELSE SubAt(m, p) = SubAt(u, p)

\* a merge that recursed: a key held as a mapping by both sides, each side with a
\* nested key the other lacks
MergeRecursedWitness ==
    /\ mergeOut.done
    /\ \E k \in KeysAt(mergeIn.default, << >>) \cap KeysAt(mergeIn.user, << >>) :
        /\ <<k>> \in BothMappings(mergeIn.default, mergeIn.user)
        /\ KeysAt(mergeIn.default, <<k>>) \ KeysAt(mergeIn.user, <<k>>) # {}
        /\ KeysAt(mergeIn.user, <<k>>) \ KeysAt(mergeIn.default, <<k>>) # {}
        /\ KeysAt(mergeOut.merged, <<k>>) = NestedKeys

----------------------------------------------------------------------------
(* C4, C5 *)

\* Config(...).get(keys) of a fresh instance that loads the file now on disk
ReloadGet(file, keys) ==
    ConfigGet(LoadConfig(file, DefaultConfig).config, keys, PyNone).ret

\* C4: set(p, v) never raises, whatever p passes through; afterwards get(p) is v and,
\* the file having been written, the file holds the configuration and a fresh
\* instance loading it answers v too.
SetNeverRaisesAndPersists ==
    cfgCall.op = "set" =>
        /\ ~cfgCall.raised
        /\ ConfigGet(config, cfgCall.path, PyNone).ret = cfgCall.value
        /\ cfgCall.saved =>
            /\ Content(config_file) = JsonFile(config)
            /\ ReloadGet(config_file, cfgCall.path) = cfgCall.value

\* C5: get(p, d) never raises, returns the value at the end of p when every segment
\* resolves through nested mappings and d otherwise, and changes nothing.
GetNeverRaisesAndResolves ==
    [][cfgCall'.op = "get" =>
        /\ ~cfgCall'.raised
        /\ cfgCall'.ret = IF cfgCall'.path \in DOMAIN config
                          THEN SubAt(config, cfgCall'.path) ELSE cfgCall'.value
        /\ config' = config
        /\ default_config' = default_config
        /\ config_file' = config_file]_vars

\* a get whose path runs into a scalar (indexing a non-mapping) and answers the default
GetThroughScalarWitness ==
    /\ cfgCall.op = "get"
    /\ cfgCall.path = <<"reddit", "default_limit", "x">>
    /\ <<"reddit", "default_limit">> \in DOMAIN config
    /\ cfgCall.ret = PyStr("fallback")

----------------------------------------------------------------------------
(* C2 *)

\* C2: a save_posts(P, f) that succeeds leaves a file from which load_posts(f) returns
\* P, and save_posts, save_digest and delete_file leave what load_posts returns for
\* every other file name as it was.
SaveThenLoadRoundTrip ==
    [][/\ (stCall'.op = "save_posts" /\ stCall'.ok) =>
            LoadPosts(data_dir', files', stCall'.name) = stCall'.posts
       /\ stCall'.op \in {"save_posts", "save_digest", "delete_file"} =>
            \A f \in FileNames \ {stCall'.name} :
                LoadPosts(data_dir', files', f) = LoadPosts(data_dir, files, f)]_vars

\* two different posts saved in order over an older file, while another post file exists
RoundTripWitness ==
    /\ stCall.op = "save_posts"
    /\ stCall.ok
    /\ Len(stCall.posts) = 2
    /\ stCall.posts[1] # stCall.posts[2]
    /\ LoadPosts(data_dir, files, stCall.name) = stCall.posts
    /\ \E f \in PostNames \ {stCall.name} : Len(LoadPosts(data_dir, files, f)) > 0

----------------------------------------------------------------------------
(* C10 *)

\* seq lists exactly the names of want, once each, in descending lexical order
ListsDescending(seq, want) ==
    /\ {seq[i] : i \in 1..Len(seq)} = want
    /\ \A i, j \in 1..Len(seq) : i < j => StrLess(seq[j], seq[i])

\* C10: list_saved_files returns the present names ending in .json and those ending in
\* .md, each list descending and without duplicates; a deleted name is not listed; a
\* missing data directory yields two empty lists.
ListingIsExactAndDescending ==
    /\ stCall.op = "list_saved_files" =>
        /\ ListsDescending(stCall.json, {f \in DOMAIN files : EndsWith(f, DotJson)})
        /\ ListsDescending(stCall.md, {f \in DOMAIN files : EndsWith(f, DotMd)})
        /\ data_dir = "missing" => stCall.json = << >> /\ stCall.md = << >>
    /\ (stCall.op = "delete_file" /\ stCall.ok) =>
        LET l == ListSavedFiles(data_dir, files)
        IN \A i \in 1..Len(l.json \o l.md) : (l.json \o l.md)[i] # stCall.name

\* a listing of two post files, a digest file and a file of neither kind
ListingWitness ==
    /\ stCall.op = "list_saved_files"
    /\ stCall.json = <<BJson, AJson>>
    /\ stCall.md = <<AJsonMd>>
    /\ Notes \in DOMAIN files

----------------------------------------------------------------------------
(* C11 *)

\* the community names occurring in the posts
Communities(posts) == {posts[i][<<"subreddit">>].val : i \in 1..Len(posts)}

\* what get_file_info must answer for a name that is absent, or that does not end in .json
FileInfoOutsideJson ==
    LET present == data_dir = "present" /\ stCall.name \in DOMAIN files
    IN /\ ~present => ~stCall.info.found
       /\ (present /\ ~EndsWith(stCall.name, DotJson)) =>
            /\ stCall.info.found
            /\ ~stCall.info.has_post_count
            /\ ~stCall.info.has_subreddits

\* C11 as stated: for a saved post file, the empty one included, get_file_info gives
\* post_count = the number of posts and subreddits = the set of their community names;
\* a name not ending in .json gives neither field; an absent file gives None.
FileInfoAlwaysHasSubreddits ==
    stCall.op = "get_file_info" =>
        LET posts == LoadPosts(data_dir, files, stCall.name)
        IN /\ FileInfoOutsideJson
           /\ (data_dir = "present" /\ stCall.name \in DOMAIN files
                    /\ EndsWith(stCall.name, DotJson)) =>
                /\ stCall.info.found
                /\ stCall.info.has_post_count
                /\ stCall.info.post_count = Len(posts)
                /\ stCall.info.has_subreddits
                /\ {c[<< >>].val : c \in stCall.info.subreddits} = Communities(posts)

\* C11 amended: as above, but the subreddits field is present only when the file holds
\* at least one post; for a file holding the empty sequence post_count is 0 and there
\* is no subreddits field.
FileInfoCountsPostsAndCommunities ==
    stCall.op = "get_file_info" =>
        LET posts == LoadPosts(data_dir, files, stCall.name)
        IN /\ FileInfoOutsideJson
           /\ (data_dir = "present" /\ stCall.name \in DOMAIN files
                    /\ EndsWith(stCall.name, DotJson)) =>
                /\ stCall.info.found
                /\ stCall.info.has_post_count
                /\ stCall.info.post_count = Len(posts)
                /\ stCall.info.has_subreddits = (posts # << >>)
                /\ posts # << >> =>
                    {c[<< >>].val : c \in stCall.info.subreddits} = Communities(posts)

\* the information of a file of two posts from two communities
FileInfoOfTwoPostsWitness ==
    /\ stCall.op = "get_file_info"
    /\ stCall.info.found
    /\ stCall.info.post_count = 2
    /\ {c[<< >>].val : c \in stCall.info.subreddits} = {"python", "golang"}

----------------------------------------------------------------------------
(* C6 *)

\* the call failed: the prompt could not be built or the language model failed
SummaryFailed(post, llm) == ~HasField(post, "title") \/ ~HasField(post, "content") \/ llm = ""

\* C6: summarize_post never raises; when building the prompt or the language model
\* fails it returns a copy of the post with the sentinel summary and no summarized_at.
SummarizePostNeverRaises ==
    smCall.op = "summarize_post" =>
        /\ ~smCall.raised
        /\ SummaryFailed(smCall.posts[1], smCall.llms[1]) =>
            /\ smCall.ret[1] = Put(smCall.posts[1], "summary", PyStr(ErrorSummary))
            /\ ~HasField(smCall.ret[1], "summarized_at")

----------------------------------------------------------------------------
(* C8 *)

\* C8: summarize_multiple_posts returns one record per input post, in order, each
\* the input post with a summary added, whatever happened to the other posts; and no
\* comment text reaches a prompt for either value of include_comments.
BatchSummarizesEveryPost ==
    smCall.op = "summarize_multiple_posts" =>
        /\ ~smCall.raised
        /\ Len(smCall.ret) = Len(smCall.posts)
        /\ \A i \in 1..Len(smCall.ret) :
            /\ \A p \in DOMAIN smCall.posts[i] : smCall.ret[i][p] = smCall.posts[i][p]
            /\ HasField(smCall.ret[i], "summary")
        /\ \A i \in 1..Len(smCall.prompts) : smCall.prompts[i].comments = << >>

----------------------------------------------------------------------------
(* C9 *)

\* C9: create_digest never raises; for no posts it answers "No posts to summarize."
\* without calling the language model; a failing model or a listed post lacking a
\* field gives a string opening with "Error creating digest: "; and the listing
\* holds the first ten posts only.
DigestNeverRaises ==
    smCall.op = "create_digest" =>
        LET n == Len(smCall.posts)
            listed == IF n < 10 THEN n ELSE 10
            broken == \E i \in 1..listed : \E f \in DigestFields : ~HasField(smCall.posts[i], f)
        IN /\ ~smCall.raised
           /\ n = 0 => smCall.digest.head = "No posts to summarize." /\ ~smCall.sent
           /\ (n > 0 /\ (broken \/ smCall.llms[1] = "")) =>
                smCall.digest.head = "Error creating digest: "
           /\ (n > 0 /\ ~broken /\ smCall.llms[1] # "") =>
                /\ smCall.digest.head = "# Reddit Posts Digest"
                /\ Len(smCall.digest.listing) = listed
                /\ \A i \in 1..listed :
                    smCall.digest.listing[i].title = smCall.posts[i][<<"title">>].val

\* a digest of eleven posts whose eleventh lacks its title: ten are listed, no error
DigestOfElevenWitness ==
    /\ smCall.op = "create_digest"
    /\ Len(smCall.posts) = 11
    /\ ~HasField(smCall.posts[11], "title")
    /\ smCall.digest.head = "# Reddit Posts Digest"
    /\ Len(smCall.digest.listing) = 10

----------------------------------------------------------------------------
(* C7 *)

\* C7: get_posts_from_subreddit and search_posts never raise; they return at most
\* limit records, in the order the client delivered them, and the empty sequence
\* when the client failed at any point, also part-way through the results.
ClientFailureGivesEmptyList ==
    clCall.op \in {"get_posts_from_subreddit", "search_posts"} =>
        /\ ~clCall.raised
        /\ Len(clCall.ret) <= clCall.limit
        /\ IF clCall.failAfter >= 0 THEN clCall.ret = << >>
           ELSE /\ Len(clCall.ret) = Len(clCall.feed)
                /\ \A i \in 1..Len(clCall.ret) :
                    clCall.ret[i][<<"id">>].val = clCall.feed[i].id

\* the client failed after delivering the first of two submissions
PartialFailureWitness ==
    /\ clCall.op = "get_posts_from_subreddit"
    /\ Len(clCall.feed) = 2
    /\ clCall.failAfter = 1
    /\ clCall.ret = << >>

====
